---- MODULE Spec2Model ----
(***************************************************************************)
(* Selection-and-pathing core of the hex-grid ant colony prototype          *)
(* (src/src/main.rs): the drag gesture state, the Selected markers, the     *)
(* destination assignment of a move order and the per-frame motion of the   *)
(* units along their waypoint queues.                                       *)
(*                                                                         *)
(* World positions.  The layout is pointy-top with scale 20, so a cell      *)
(* (q, r) has its center at x = 20*sqrt(3)*(q + r/2), y = 30*r.  A world    *)
(* position is kept as a pair <<a, b>> of integers standing for             *)
(*      x = a * (10*sqrt(3)/12)        y = b * 2.5                         *)
(* so that every cell center is the lattice point <<12*(2q+r), 12*r>> and   *)
(* every squared distance is the rational (25*da^2 + 75*db^2) / 12.         *)
(* Distances are compared through that expression, which is exact.          *)
(*                                                                         *)
(* An Option<T> is a sequence of length at most one:  None is << >>, and    *)
(* Some(v) is <<v>>.                                                        *)
(***************************************************************************)
EXTENDS Integers, Sequences, FiniteSets, TLC

(***************************************************************************)
(* Bounds of the model.                                                     *)
(***************************************************************************)
\* number of move orders a behaviour may issue
MaxOrders == 2

(***************************************************************************)
(* Program constants.                                                       *)
(***************************************************************************)
\* HexLayout.scale = HexVec2::splat(20.0)
HexScale == 20
\* target_hex.spiral_range(0..10): the end of the half-open range of rings
SpiralEnd == 10
\* Hex::ZERO.ring(1).take(3)
NumWorkers == 3
\* if dist < 5.0 (ant_input)
ClickThreshold == 5
\* let arrival_radius = 2.0 (move_ants)
ArrivalRadius == 2
\* the Queen is the first entity spawned, the workers follow
Queen == 0
Workers == 1..NumWorkers
Units == {Queen} \cup Workers

None == << >>
Some(v) == <<v>>
IsSome(o) == Len(o) = 1
Unwrap(o) == o[1]

Abs(n) == IF n < 0 THEN -n ELSE n
Sgn(n) == IF n < 0 THEN -1 ELSE IF n > 0 THEN 1 ELSE 0
Min2(x, y) == IF x <= y THEN x ELSE y
Max2(x, y) == IF x >= y THEN x ELSE y

(***************************************************************************)
(* Vec2 arithmetic on lattice pairs.                                        *)
(***************************************************************************)
VSub(p, q) == <<p[1] - q[1], p[2] - q[2]>>
VAdd(p, q) == <<p[1] + q[1], p[2] + q[2]>>
VZero == <<0, 0>>
\* twelve times the squared Euclidean length of a lattice vector
LenSq12(d) == 25 * d[1] * d[1] + 75 * d[2] * d[2]
\* twelve times the squared Euclidean distance of two positions
DistSq12(p, q) == LenSq12(VSub(p, q))
\* Vec2::min / Vec2::max are componentwise
VMin(p, q) == <<Min2(p[1], q[1]), Min2(p[2], q[2])>>
VMax(p, q) == <<Max2(p[1], q[1]), Max2(p[2], q[2])>>
\* a clamp that always answers the lower bound
ClampToLow(x, lo, hi) == lo

\* f32::clamp
Clamp(x, lo, hi) == IF x < lo THEN lo ELSE IF x > hi THEN hi ELSE x

(***************************************************************************)
(* hexx: Hex, HexLayout.                                                    *)
(***************************************************************************)
\* f32::round of n/d (d > 0): nearest integer, halves away from zero
RoundDiv(n, d) ==
    IF n >= 0 THEN (2 * n + d) \div (2 * d)
              ELSE -((2 * (-n) + d) \div (2 * d))

\* Hex::round([x, y]) for x = xn/d, y = yn/d
HexRound(xn, yn, d) ==
    LET xr == RoundDiv(xn, d)
        yr == RoundDiv(yn, d)
        xf == xn - xr * d
        yf == yn - yr * d
    IN  IF Abs(xf) >= Abs(yf)
        THEN <<xr + RoundDiv(2 * xf + yf, 2 * d), yr>>
        ELSE <<xr, yr + RoundDiv(2 * yf + xf, 2 * d)>>

\* HexLayout::hex_to_world_pos, pointy orientation
HexToWorldPos(h) == <<12 * (2 * h[1] + h[2]), 12 * h[2]>>

\* HexLayout::world_pos_to_hex: the fractional axial coordinates
\* q = (a - b)/24, r = b/12 rounded by Hex::round
WorldPosToHex(p) == HexRound(p[1] - p[2], 2 * p[2], 24)

\* Hex::unsigned_distance_to
HexDistance(g, h) ==
    LET dq == g[1] - h[1]
        dr == g[2] - h[2]
    IN  (Abs(dq) + Abs(dr) + Abs(dq + dr)) \div 2

\* Hex::NEIGHBORS_COORDS
HexNeighbors == << <<1, 0>>, <<1, -1>>, <<0, -1>>, <<-1, 0>>, <<-1, 1>>, <<0, 1>> >>

\* Hex::ring: the 6*r cells at distance r, starting at center + r*NEIGHBORS[0]
\* and walking the six sides; the center alone for r = 0
Ring(center, r) ==
    IF r = 0 THEN <<center>>
    ELSE [i \in 1..(6 * r) |->
            LET side == (i - 1) \div r
                off == (i - 1) % r
                corner == HexNeighbors[side + 1]
                dir == HexNeighbors[((side + 2) % 6) + 1]
            IN  <<center[1] + r * corner[1] + off * dir[1],
                  center[2] + r * corner[2] + off * dir[2]>>]

\* the rings lo, lo+1, ..., hi, the last one included
RECURSIVE SpiralRangeInclusive(_, _, _)
SpiralRangeInclusive(center, lo, hi) ==
    IF lo > hi THEN << >>
    ELSE Ring(center, lo) \o SpiralRangeInclusive(center, lo + 1, hi)

\* Hex::spiral_range(lo..hi): the rings lo, lo+1, ..., hi-1 one after another
RECURSIVE SpiralRange(_, _, _)
SpiralRange(center, lo, hi) ==
    IF lo >= hi THEN << >>
    ELSE Ring(center, lo) \o SpiralRange(center, lo + 1, hi)

\* Hex::line_to: distance+1 cells, the k-th the rounding of the point k/distance
\* of the way from g to h
LineTo(g, h) ==
    LET distance == HexDistance(g, h)
        n == Max2(distance, 1)
    IN  [i \in 1..(distance + 1) |->
            HexRound(g[1] * n + (h[1] - g[1]) * (i - 1),
                     g[2] * n + (h[2] - g[2]) * (i - 1), n)]

(***************************************************************************)
(* Inputs of a frame.                                                       *)
(***************************************************************************)
\* The pointer hardware of a run and the positions its cursor visits: a mouse
\* kept near the Queen ("mouse"), a mouse sweeping over the workers ("sweep"),
\* or a touch screen together with a mouse ("touch").
Devices == {"mouse", "sweep", "touch"}
\* positions the mouse cursor may report.
\*   "mouse": the center of the Queen's cell (0,0), the point of that cell
\*            exactly 5.0 above it, and the centers of the cells (1,0), (-1,0);
\*   "sweep": the center of the Queen's cell and the point (46.2, -20.0) of the
\*            empty cell (2,-1);
\*   "touch": the center of the Queen's cell and the point 5.0 above it.
CursorPositions(dev) ==
    IF dev = "mouse" THEN {<<0, 0>>, <<0, 2>>, <<24, 0>>, <<-24, 0>>}
    ELSE IF dev = "sweep" THEN {<<0, 0>>, <<32, -8>>}
    ELSE {<<0, 0>>, <<0, 2>>}
\* positions a pressed touch may report: the center of cell (1,-1)
TouchPositions == {<<12, -12>>}

\* ButtonInput / Touches: what a button or the touch did in this frame
Phases == {"up", "just_pressed", "pressed", "just_released"}
IsDown(phase) == phase \in {"just_pressed", "pressed"}
\* the phases a button can show in a frame, given whether it was down before
NextPhases(down) ==
    IF down THEN {"pressed", "just_released"} ELSE {"up", "just_pressed"}

\* the inputs a frame can show: Window::cursor_position, the left button of
\* ButtonInput<MouseButton>, and Touches with one finger, which keeps a
\* position exactly while the touch is pressed
FrameInputs(dev, was_mouse_down, was_touch_down) ==
    { i \in [cursor : {None} \cup {Some(p) : p \in CursorPositions(dev)},
             mouse : NextPhases(was_mouse_down),
             touch : IF dev = "touch" THEN NextPhases(was_touch_down) ELSE {"up"},
             touch_pos : {None} \cup {Some(p) : p \in TouchPositions}] :
        IsSome(i.touch_pos) <=> IsDown(i.touch) }

\* Camera::viewport_to_world_2d of the default camera; the frame's positions are
\* drawn directly on the world lattice
ViewportToWorld2d(p) == Some(p)

(***************************************************************************)
(* State.                                                                   *)
(***************************************************************************)
VARIABLES
    device,         \* the pointer hardware of the run
    translation,    \* Transform.translation.truncate() of every unit
    target,         \* TargetPosition of every unit
    waypoints,      \* Path.waypoints of every unit
    linvel,         \* Velocity.linvel of every worker (the Queen has none)
    selected,       \* the units carrying the Selected marker
    start_pos,      \* SelectionState.start_pos
    drag_current,   \* SelectionState.drag_current
    mouse_down,     \* ButtonInput<MouseButton>: the left button is held
    touch_down,     \* Touches: a touch is pressed
    ran,            \* the Update systems that have run in the current frame
    res,            \* what ant_input read and resolved in the current frame
    dest,           \* the destination cell last assigned to every unit
    orders,         \* number of move orders issued so far
    quiet,          \* the user has stopped pressing and releasing for good
    hist            \* what the latest click and the latest move_ants did

vars == <<device, translation, target, waypoints, linvel, selected, start_pos,
          drag_current, mouse_down, touch_down, ran, res, dest, orders, quiet, hist>>

world == <<translation, target, waypoints, linvel>>

Systems == {"ant_input", "move_ants"}

Unassigned == [u \in Units |-> None]

\* the record ant_input leaves about a frame
\*   kind: "idle" (not run yet), "no_position" (early return), "hold" (no
\*         release event), "no_start" (release without a recorded start),
\*         "toggle" (click on a unit), "noop" (click on an empty cell, nothing
\*         selected), "move" (move order), "box" (box-select)
\*   released: a release event was reported; cursor, touch_pos: the positions
\*   reported; at: the pointer world position used; from: start_pos as the
\*   release handling found it; who: the units whose marker was toggled;
\*   assigned: unit -> destination cell
Resolution(kind, inp, at, from, who, assigned) ==
    [kind |-> kind,
     released |-> inp.mouse = "just_released" \/ inp.touch = "just_released",
     cursor |-> inp.cursor, touch_pos |-> inp.touch_pos,
     at |-> at, from |-> from, who |-> who, assigned |-> assigned]
Idle == [kind |-> "idle", released |-> FALSE, cursor |-> None, touch_pos |-> None,
         at |-> None, from |-> None, who |-> {}, assigned |-> Unassigned]

\* spawn_units: the Queen on Hex::ZERO, the workers on the first three cells
\* of ring 1, every TargetPosition on the unit's own cell, every Path empty
SpawnHex(u) == IF u = Queen THEN <<0, 0>> ELSE Ring(<<0, 0>>, 1)[u]

\* The observation record of a run.  A run that starts with it switched on
\* keeps
\*   click:   the cell of the latest click that toggled a unit, the
\*            selection that click found and whether the click before it
\*            was on the same cell, for as long as no unit changes cell
\*            and no other resolution follows;
\*   snapped: the workers whose position the frame's move_ants changed by
\*            its snap;
\*   popped:  the workers whose Path the frame's move_ants popped.
\* A run that starts with it switched off never writes it.
NoHist(on) == [on |-> on, click |-> None, snapped |-> {}, popped |-> {}]

\* the cells the units are seen in, as a function of their positions
CellsOf(tr) == [u \in Units |-> WorldPosToHex(tr[u])]

Init ==
    /\ device \in Devices
    /\ translation = [u \in Units |-> HexToWorldPos(SpawnHex(u))]
    /\ target = [u \in Units |-> HexToWorldPos(SpawnHex(u))]
    /\ waypoints = [u \in Units |-> << >>]
    /\ linvel = [w \in Workers |-> VZero]
    /\ selected = {}
    /\ start_pos = None
    /\ drag_current = None
    /\ mouse_down = FALSE
    /\ touch_down = FALSE
    /\ ran = {}
    /\ res = Idle
    /\ dest = [u \in Units |-> None]
    /\ orders = 0
    /\ quiet = FALSE
    /\ hist = NoHist(FALSE)

(***************************************************************************)
(* handle_click.                                                            *)
(***************************************************************************)
\* the cell a unit is heading for, in place of the one it is seen in
CellOfTarget(u) == WorldPosToHex(target[u])

\* the cell a unit is seen in: world_pos_to_hex of its transform
CellOf(u) == WorldPosToHex(translation[u])

\* a hit test that also reaches the units of the six cells around the click
UnitsInHexNear(clicked_hex) == {u \in Units : HexDistance(CellOf(u), clicked_hex) <= 1}

\* the units a click on `clicked_hex` can hit; the loop takes the first one the
\* query yields, and the order of a query is not fixed by the program
UnitsInHex(clicked_hex) == {u \in Units : CellOf(u) = clicked_hex}

\* a click that deselects a selected unit but selects an unselected one alone
ToggleExclusive(sel, u) == IF u \in sel THEN sel \ {u} ELSE {u}

\* a click that only ever selects
ToggleOn(sel, u) == sel \cup {u}

\* insert / remove of the Selected marker of one entity
Toggle(sel, u) == IF u \in sel THEN sel \ {u} ELSE sel \cup {u}

\* the target cells of the units that are not selected
Occupied == {WorldPosToHex(target[u]) : u \in Units \ selected}

\* the candidate walk without the occupancy test
RECURSIVE AvailableFromRelaxed(_, _, _, _, _)
AvailableFromRelaxed(candidates, i, occupied, available, n) ==
    IF i > Len(candidates) THEN available
    ELSE IF Len(available) + 1 >= n
         THEN Append(available, candidates[i])
         ELSE AvailableFromRelaxed(candidates, i + 1, occupied,
                                   Append(available, candidates[i]), n)

\* for hex in candidates { if !occupied.contains(&hex) { push; insert;
\* if available_hexes.len() >= selected_entities.len() { break } } }
RECURSIVE AvailableFrom(_, _, _, _, _)
AvailableFrom(candidates, i, occupied, available, n) ==
    IF i > Len(candidates) THEN available
    ELSE IF candidates[i] \notin occupied
         THEN IF Len(available) + 1 >= n
              THEN Append(available, candidates[i])
              ELSE AvailableFrom(candidates, i + 1, occupied \cup {candidates[i]},
                                 Append(available, candidates[i]), n)
         ELSE AvailableFrom(candidates, i + 1, occupied, available, n)

\* the candidate walk started on the first ring, leaving the anchor out
AvailableHexesFromRingOne(target_hex, occupied, n) ==
    AvailableFrom(SpiralRange(target_hex, 1, SpiralEnd), 1, occupied, << >>, n)

AvailableHexes(target_hex, occupied, n) ==
    AvailableFrom(SpiralRange(target_hex, 0, SpiralEnd), 1, occupied, << >>, n)

\* the route cut one cell short of the destination
RouteShort(current_hex, dest_hex) ==
    LET line == LineTo(current_hex, dest_hex)
    IN  [i \in 1..(Len(line) - 2) |-> HexToWorldPos(line[i + 1])]

\* current_hex.line_to(dest_hex).skip(1).map(hex_to_world_pos)
Route(current_hex, dest_hex) ==
    LET line == LineTo(current_hex, dest_hex)
    IN  [i \in 1..(Len(line) - 1) |-> HexToWorldPos(line[i + 1])]

\* the new route queued behind the waypoints the unit still had
NewPathAppended(old, route) == old \o route

\* path.waypoints = VecDeque::from(route)
NewPath(old, route) == route

\* the sequences that list every element of a set once: the orders in which
\* selected_q.iter() can yield the selected entities
Orderings(S) ==
    {f \in [1..Cardinality(S) -> S] : \A i, j \in 1..Cardinality(S) : f[i] = f[j] => i = j}

\* an assignment that also sends the units outside the selection to the first
\* available cell
AssignedToEveryUnit(order, available) ==
    [u \in Units |->
        IF \E i \in 1..Len(order) : order[i] = u /\ i <= Len(available)
        THEN Some(available[CHOOSE i \in 1..Len(order) : order[i] = u])
        ELSE IF available # << >> THEN Some(available[1]) ELSE None]

\* the destination of the i-th selected entity: available_hexes.get(i)
AssignedTo(order, available) ==
    [u \in Units |->
        IF \E i \in 1..Len(order) : order[i] = u /\ i <= Len(available)
        THEN Some(available[CHOOSE i \in 1..Len(order) : order[i] = u])
        ELSE None]

\* the selection reset on a successful order instead of a failed one
SelectionAfterOrderInverted(sel, moved_any) == IF moved_any THEN {} ELSE sel

\* if !moved_any { for sel in selected_q.iter() { remove::<Selected>() } }
SelectionAfterOrder(sel, moved_any) == IF moved_any THEN sel ELSE {}

\* the move order of handle_click (the else branch of `if let Some(entity) = hit_unit`)
MoveOrder(world_pos, start, inp) ==
    LET target_hex == WorldPosToHex(world_pos)
    IN  IF selected = {}
        THEN /\ res' = Resolution("noop", inp, Some(world_pos), Some(start), {}, Unassigned)
             /\ UNCHANGED <<translation, target, waypoints, linvel, selected, dest, orders>>
        ELSE /\ orders < MaxOrders
             /\ \E order \in Orderings(selected) :
                  LET available == AvailableHexes(target_hex, Occupied, Len(order))
                      assigned == AssignedTo(order, available)
                      route(u) == NewPath(waypoints[u],
                                          Route(CellOf(u), Unwrap(assigned[u])))
                      moved_any == \E u \in Units : IsSome(assigned[u])
                  IN  /\ waypoints' = [u \in Units |->
                            IF IsSome(assigned[u])
                            THEN IF route(u) = << >> THEN << >> ELSE Tail(route(u))
                            ELSE waypoints[u]]
                      /\ target' = [u \in Units |->
                            IF IsSome(assigned[u])
                            THEN IF route(u) = << >>
                                 THEN HexToWorldPos(Unwrap(assigned[u]))
                                 ELSE Head(route(u))
                            ELSE target[u]]
                      /\ selected' = SelectionAfterOrder(selected, moved_any)
                      /\ dest' = [u \in Units |->
                            IF IsSome(assigned[u]) THEN assigned[u] ELSE dest[u]]
                      /\ res' = Resolution("move", inp, Some(world_pos), Some(start), {}, assigned)
             /\ orders' = orders + 1
             /\ UNCHANGED <<translation, linvel>>

handle_click(world_pos, start, inp) ==
    LET clicked_hex == WorldPosToHex(world_pos)
    IN  IF UnitsInHex(clicked_hex) # {}
        THEN \E entity \in UnitsInHex(clicked_hex) :
               /\ selected' = Toggle(selected, entity)
               /\ res' = Resolution("toggle", inp, Some(world_pos), Some(start), {entity}, Unassigned)
               /\ UNCHANGED <<translation, target, waypoints, linvel, dest, orders>>
        ELSE MoveOrder(world_pos, start, inp)

(***************************************************************************)
(* handle_box_select.                                                       *)
(***************************************************************************)
\* the hit test with the boundary of the circle counted as a hit
BoxHitInclusive(pos, min, max) ==
    LET closest == <<Clamp(pos[1], min[1], max[1]), Clamp(pos[2], min[2], max[2])>>
    IN  DistSq12(pos, closest) <= 12 * HexScale * HexScale

\* dist_sq < hex_radius * hex_radius for the closest point of the rectangle
BoxHit(pos, min, max) ==
    LET closest == <<Clamp(pos[1], min[1], max[1]), Clamp(pos[2], min[2], max[2])>>
    IN  DistSq12(pos, closest) < 12 * HexScale * HexScale

handle_box_select(start, end, inp) ==
    LET min == VMin(start, end)
        max == VMax(start, end)
        hit == {u \in Units : BoxHit(translation[u], min, max)}
    IN  /\ selected' = (selected \ hit) \cup (hit \ selected)
        /\ res' = Resolution("box", inp, Some(end), Some(start), hit, Unassigned)
        /\ UNCHANGED <<translation, target, waypoints, linvel, dest, orders>>

(***************************************************************************)
(* ant_input.                                                               *)
(***************************************************************************)
\* Touches::first_pressed_position
FirstPressedPosition(inp) == IF IsDown(inp.touch) THEN inp.touch_pos ELSE None

\* the touch position taken first, the cursor only without a pressed touch
CursorPosTouchFirst(inp) ==
    IF IsSome(FirstPressedPosition(inp)) THEN FirstPressedPosition(inp) ELSE inp.cursor

\* let cursor_pos = if let Some(pos) = window.cursor_position() { pos }
\*                  else if let Some(touch) = touches.first_pressed_position() { touch }
\*                  else { return }
CursorPos(inp) ==
    IF IsSome(inp.cursor) THEN inp.cursor ELSE FirstPressedPosition(inp)

\* mouse_input.just_pressed(Left) || touches.any_just_pressed()
JustPressed(inp) == inp.mouse = "just_pressed" \/ inp.touch = "just_pressed"
\* mouse_input.pressed(Left) || touches.iter().count() > 0
Pressed(inp) == IsDown(inp.mouse) \/ IsDown(inp.touch)
\* mouse_input.just_released(Left) || touches.any_just_released()
JustReleased(inp) == inp.mouse = "just_released" \/ inp.touch = "just_released"

\* start.distance(world_pos) < 5.0
IsClick(start, world_pos) ==
    DistSq12(start, world_pos) < 12 * ClickThreshold * ClickThreshold

\* One run of ant_input on the input `inp` of the frame.  The Selected
\* markers are inserted and removed through Commands, which the schedule
\* applies after its systems; no other system of the frame reads them, so they
\* are written here.
AntInputOn(inp) ==
    IF ~IsSome(CursorPos(inp)) \/ ~IsSome(ViewportToWorld2d(Unwrap(CursorPos(inp))))
    THEN /\ res' = Resolution("no_position", inp, None, start_pos, {}, Unassigned)
         /\ UNCHANGED <<world, selected, start_pos, drag_current, dest, orders>>
    ELSE LET world_pos == Unwrap(ViewportToWorld2d(Unwrap(CursorPos(inp))))
             start1 == IF JustPressed(inp) THEN Some(world_pos) ELSE start_pos
             current1 == IF JustPressed(inp) \/ Pressed(inp)
                         THEN Some(world_pos) ELSE drag_current
         IN  IF JustReleased(inp)
             THEN /\ start_pos' = None
                  /\ drag_current' = None
                  /\ IF IsSome(start1)
                     THEN IF IsClick(Unwrap(start1), world_pos)
                          THEN handle_click(world_pos, Unwrap(start1), inp)
                          ELSE handle_box_select(Unwrap(start1), world_pos, inp)
                     ELSE /\ res' = Resolution("no_start", inp, Some(world_pos), None, {}, Unassigned)
                          /\ UNCHANGED <<world, selected, dest, orders>>
             ELSE /\ start_pos' = start1
                  /\ drag_current' = current1
                  /\ res' = Resolution("hold", inp, Some(world_pos), start1, {}, Unassigned)
                  /\ UNCHANGED <<world, selected, dest, orders>>

\* an input without a press or release event
NoEvent(inp) == ~JustPressed(inp) /\ ~JustReleased(inp)

\* ant_input in a frame: the engine has gathered the frame's events, which
\* follow from the buttons held in the frame before
AntInput ==
    /\ "ant_input" \notin ran
    /\ ran' = ran \cup {"ant_input"}
    /\ UNCHANGED <<device, quiet>>
    /\ \E inp \in FrameInputs(device, mouse_down, touch_down) :
         /\ quiet => NoEvent(inp)
         /\ mouse_down' = IsDown(inp.mouse)
         /\ touch_down' = IsDown(inp.touch)
         /\ AntInputOn(inp)
    /\ hist' = IF ~hist.on THEN hist
               ELSE IF res'.kind = "toggle"
                    THEN [hist EXCEPT !.click =
                            Some([cell |-> WorldPosToHex(Unwrap(res'.at)),
                                  sel |-> selected,
                                  second |-> /\ IsSome(hist.click)
                                             /\ Unwrap(hist.click).cell
                                                   = WorldPosToHex(Unwrap(res'.at))])]
               ELSE IF res'.kind \in {"noop", "move", "box"}
                    THEN [hist EXCEPT !.click = None]
               ELSE hist

(***************************************************************************)
(* move_ants.                                                               *)
(***************************************************************************)
\* arrival only on the exact target
ArrivedExact(pos, tgt) == pos = tgt

\* distance > arrival_radius
Arrived(pos, tgt) == ~(LenSq12(VSub(tgt, pos)) > 12 * ArrivalRadius * ArrivalRadius)

\* a worker that waits a frame at every waypoint before it turns to the next
VelocityAfterArrivalStalled(tgt, wps) == VZero

\* the velocity of a worker snapped onto `tgt`: towards the waypoint it pops
\* (delta.normalize_or_zero() * speed), Vec2::ZERO without one
VelocityAfterArrival(tgt, wps) ==
    IF wps # << >> THEN VSub(Head(wps), tgt) ELSE VZero

\* Velocity.linvel = direction * speed is kept as the vector it is parallel to:
\* the delta from the position to the target it was computed from (<<0,0>> for
\* Vec2::ZERO and for normalize_or_zero of a zero delta).  The facing rotation
\* is presentation only and is not kept.
MoveAnts ==
    /\ "move_ants" \notin ran
    /\ ran' = ran \cup {"move_ants"}
    /\ translation' = [u \in Units |->
          IF u \in Workers /\ Arrived(translation[u], target[u])
          THEN target[u] ELSE translation[u]]
    /\ target' = [u \in Units |->
          IF u \in Workers /\ Arrived(translation[u], target[u]) /\ waypoints[u] # << >>
          THEN Head(waypoints[u]) ELSE target[u]]
    /\ waypoints' = [u \in Units |->
          IF u \in Workers /\ Arrived(translation[u], target[u]) /\ waypoints[u] # << >>
          THEN Tail(waypoints[u]) ELSE waypoints[u]]
    /\ linvel' = [w \in Workers |->
          IF ~Arrived(translation[w], target[w])
          THEN VSub(target[w], translation[w])
          ELSE VelocityAfterArrival(target[w], waypoints[w])]
    /\ hist' = IF ~hist.on THEN hist
               ELSE [on |-> TRUE,
                     click |-> IF CellsOf(translation') = CellsOf(translation)
                               THEN hist.click ELSE None,
                     snapped |-> {w \in Workers : translation'[w] # translation[w]},
                     popped |-> {w \in Workers : waypoints'[w] # waypoints[w]}]
    /\ UNCHANGED <<device, selected, start_pos, drag_current, mouse_down, touch_down,
                   res, dest, orders, quiet>>

(***************************************************************************)
(* The frame boundary: the physics step and the next frame's input.         *)
(***************************************************************************)
\* the point short of the end of a horizontal run that is the first one
\* within arrival_radius of it
Short(v) == IF v[2] = 0 /\ Abs(v[1]) >= 2 THEN <<Sgn(v[1]), 0>> ELSE VZero

\* The rigid-body integration of a Dynamic body over one frame: a unit with a
\* velocity advances along it.  A frame covers less than arrival_radius, so
\* the unit never passes the point its velocity aims at; the model lets it
\* cover k thirds of the remaining run when those are lattice points, and
\* otherwise reach the first lattice point within arrival_radius of the end.
Integrate(pos, v, k) ==
    IF v = VZero THEN pos
    ELSE IF v[1] % 3 = 0 /\ v[2] % 3 = 0
         THEN <<pos[1] + k * (v[1] \div 3), pos[2] + k * (v[2] \div 3)>>
         ELSE VSub(VAdd(pos, v), Short(v))

NextFrame ==
    /\ ran = Systems
    /\ ran' = {}
    /\ res' = Idle
    /\ \E k \in 1..2 :
         translation' = [u \in Units |->
            IF u \in Workers THEN Integrate(translation[u], linvel[u], k)
            ELSE translation[u]]
    /\ hist' = IF ~hist.on THEN hist
               ELSE [on |-> TRUE,
                     click |-> IF CellsOf(translation') = CellsOf(translation)
                               THEN hist.click ELSE None,
                     snapped |-> {}, popped |-> {}]
    /\ UNCHANGED <<device, target, waypoints, linvel, selected, start_pos,
                   drag_current, mouse_down, touch_down, dest, orders, quiet>>

Next == AntInput \/ MoveAnts \/ NextFrame

Spec == Init /\ [][Next]_vars

\* the same program, started with the observation record switched on
InitObserved ==
    /\ \E d \in Devices : device = d
    /\ translation = [u \in Units |-> HexToWorldPos(SpawnHex(u))]
    /\ target = [u \in Units |-> HexToWorldPos(SpawnHex(u))]
    /\ waypoints = [u \in Units |-> << >>]
    /\ linvel = [w \in Workers |-> VZero]
    /\ selected = {}
    /\ start_pos = None
    /\ drag_current = None
    /\ mouse_down = FALSE
    /\ touch_down = FALSE
    /\ ran = {}
    /\ res = Idle
    /\ dest = [u \in Units |-> None]
    /\ orders = 0
    /\ quiet = FALSE
    /\ hist = NoHist(TRUE)

SpecObserved == InitObserved /\ [][Next]_vars

\* The user lets go of the pointer for good: from here on no frame reports a
\* press or a release.
Quiesce ==
    /\ ~quiet
    /\ quiet' = TRUE
    /\ UNCHANGED <<device, translation, target, waypoints, linvel, selected, start_pos,
                   drag_current, mouse_down, touch_down, ran, res, dest, orders, hist>>

NextLive == Next \/ Quiesce

\* The engine runs every Update system in every frame and frames keep coming;
\* nothing obliges the user to stop.
SpecLive ==
    /\ Init /\ [][NextLive]_vars
    /\ WF_vars(AntInput) /\ WF_vars(MoveAnts) /\ WF_vars(NextFrame)

(***************************************************************************)
(* Properties.                                                              *)
(***************************************************************************)
\* the step of a frame in which ant_input runs
AntInputStep == "ant_input" \notin ran /\ "ant_input" \in ran'

\* the resolutions a click can have
ClickKinds == {"toggle", "noop", "move"}

\* the release of the frame came with a recorded start and a pointer position
\* less than 5.0 away from it (a click) / at least 5.0 away from it (a drag)
ReleasedAsClick(r) ==
    /\ r.released /\ IsSome(r.from) /\ IsSome(r.at)
    /\ DistSq12(Unwrap(r.from), Unwrap(r.at)) < 300
ReleasedAsDrag(r) ==
    /\ r.released /\ IsSome(r.from) /\ IsSome(r.at)
    /\ DistSq12(Unwrap(r.from), Unwrap(r.at)) >= 300

\* C1: within every tick ant_input is applied before move_ants: no tick has
\* move_ants run while ant_input has not, and at the end of a tick in which a
\* worker received a move order its velocity is the one computed from the
\* newly written TargetPosition.
C1_InputBeforeMotion ==
    /\ ~("move_ants" \in ran /\ "ant_input" \notin ran)
    /\ (ran = Systems /\ res.kind = "move") =>
          \A w \in Workers : IsSome(res.assigned[w]) =>
              linvel[w] = VSub(target[w], translation[w])

\* C2: every release event that finds a recorded drag start emits exactly one
\* resolution: a click at the release position when start and release are
\* less than 5.0 apart, a box-select otherwise; the rectangle does not depend
\* on the order of its two corners.
C2_ReleaseResolvesOnce ==
    (res.released /\ IsSome(res.from)) =>
        /\ IsSome(res.at)
        /\ IF DistSq12(Unwrap(res.from), Unwrap(res.at)) < 300
           THEN res.kind \in ClickKinds
           ELSE res.kind = "box"
        /\ VMin(Unwrap(res.from), Unwrap(res.at)) = VMin(Unwrap(res.at), Unwrap(res.from))
        /\ VMax(Unwrap(res.from), Unwrap(res.at)) = VMax(Unwrap(res.at), Unwrap(res.from))

\* C3: after a tick in which a release event occurred, start_pos and
\* drag_current are both None, whatever position the frame did or did not supply.
C3_ReleaseClearsDrag ==
    res.released => (start_pos = None /\ drag_current = None)

\* C4 as stated: the position used is that of the pressed touch whenever there
\* is one, and the cursor position only without a pressed touch.
C4_TouchFirst ==
    res.kind # "idle" =>
        res.at = IF IsSome(res.touch_pos) THEN res.touch_pos ELSE res.cursor

\* C4 amended: the position used is the cursor position whenever the window
\* reports one, and that of the pressed touch only without a cursor position;
\* it is the position written to drag_current while a button or touch is held.
C4_CursorFirst ==
    res.kind # "idle" =>
        /\ res.at = IF IsSome(res.cursor) THEN res.cursor ELSE res.touch_pos
        /\ (res.kind = "hold" /\ (mouse_down \/ touch_down)) => drag_current = res.at

\* a held frame that reported a cursor position and a different touch position
C4_BothSources ==
    /\ res.kind = "hold" /\ touch_down
    /\ IsSome(res.cursor) /\ IsSome(res.touch_pos) /\ res.cursor # res.touch_pos
    /\ drag_current = res.cursor

\* C5: a click on a cell that holds a unit flips the Selected marker of
\* exactly one unit of that cell and changes no other marker, no
\* TargetPosition and no Path.
C5_ClickTogglesOne ==
    [][(/\ AntInputStep
        /\ ReleasedAsClick(res')
        /\ \E u \in Units :
              WorldPosToHex(translation[u]) = WorldPosToHex(Unwrap(res'.at)))
       => /\ \E u \in Units :
              /\ WorldPosToHex(translation[u]) = WorldPosToHex(Unwrap(res'.at))
              /\ selected' = (selected \ {u}) \cup ({u} \ selected)
          /\ target' = target
          /\ waypoints' = waypoints]_vars

\* a click has just added a unit to a selection that held another one
C5_ToggledBesideOthers ==
    /\ res.kind = "toggle" /\ ReleasedAsClick(res)
    /\ res.who \subseteq selected
    /\ Cardinality(selected) >= 2

\* the cell in which a unit comes to rest when it follows its orders: that
\* of the last waypoint of the path `wp`, or of the target `tg` without one
FinalCell(tg, wp) ==
    IF wp = << >> THEN WorldPosToHex(tg) ELSE WorldPosToHex(wp[Len(wp)])

\* the ant_input step resolves a click on a cell without a unit while units are
\* selected: a move order
MoveOrderStep ==
    /\ AntInputStep
    /\ ReleasedAsClick(res')
    /\ \A u \in Units : WorldPosToHex(translation[u]) # WorldPosToHex(Unwrap(res'.at))
    /\ selected # {}

\* C6: after a move order the destination cells of the selected units are
\* pairwise distinct, and none is the cell of the TargetPosition of a unit
\* that is not selected.
C6_DestinationsDistinct ==
    [][MoveOrderStep =>
        /\ \A u \in selected : IsSome(res'.assigned[u])
        /\ \A u \in selected :
              FinalCell(target'[u], waypoints'[u]) = Unwrap(res'.assigned[u])
        /\ \A u, v \in selected :
              u # v => FinalCell(target'[u], waypoints'[u])
                           # FinalCell(target'[v], waypoints'[v])
        /\ \A u \in selected, v \in Units \ selected :
              FinalCell(target'[u], waypoints'[u]) # WorldPosToHex(target'[v])]_vars

\* a move order has just sent two or more units off to a cell and its ring,
\* a ring in which a unit outside the selection holds a cell
C6_OrderBesideOccupied ==
    /\ res.kind = "move" /\ "move_ants" \notin ran
    /\ Cardinality({u \in Units : IsSome(res.assigned[u])}) >= 2
    /\ \E v \in Units \ selected :
          HexDistance(WorldPosToHex(target[v]), WorldPosToHex(Unwrap(res.at))) <= 1

\* the center of the cell (0,0), where the Queen is spawned
QueenHome == <<0, 0>>

\* the ant_input step resolves a click on the cell (0,0)
ClickOnQueenCell ==
    /\ AntInputStep
    /\ ReleasedAsClick(res')
    /\ WorldPosToHex(Unwrap(res'.at)) = <<0, 0>>

\* C8 as stated: the Queen never leaves the center of cell (0,0) and never
\* carries a velocity, and every click on cell (0,0) flips the Queen's marker,
\* so that two of them turn it on and back off.
C8_QueenFixedAndToggled ==
    [][/\ translation'[Queen] = QueenHome
       /\ Queen \notin DOMAIN linvel'
       /\ ClickOnQueenCell =>
             selected' = (selected \ {Queen}) \cup ({Queen} \ selected)]_vars

\* C8 amended: the Queen never leaves the center of cell (0,0) and never
\* carries a velocity, and a click on cell (0,0) flips the Queen's marker
\* (and no other) whenever no worker's position lies in that cell.
C8_QueenFixedAndToggledAlone ==
    [][/\ translation'[Queen] = QueenHome
       /\ Queen \notin DOMAIN linvel'
       /\ (/\ ClickOnQueenCell
           /\ \A w \in Workers : WorldPosToHex(translation[w]) # <<0, 0>>)
          => selected' = (selected \ {Queen}) \cup ({Queen} \ selected)]_vars

\* the Queen, selected and given a move order earlier, is still at home and a
\* click on her cell has just turned her marker off again
C8_QueenOrderedThenToggledOff ==
    /\ res.kind = "toggle" /\ res.who = {Queen}
    /\ IsSome(dest[Queen])
    /\ Queen \notin selected
    /\ translation[Queen] = QueenHome
    /\ target[Queen] # QueenHome

\* the squared distance (times 12) from a position to the closest point of
\* the rectangle spanned by two corners
RectDistSq12(pos, c1, c2) ==
    LET lox == IF c1[1] <= c2[1] THEN c1[1] ELSE c2[1]
        hix == IF c1[1] <= c2[1] THEN c2[1] ELSE c1[1]
        loy == IF c1[2] <= c2[2] THEN c1[2] ELSE c2[2]
        hiy == IF c1[2] <= c2[2] THEN c2[2] ELSE c1[2]
        dx == IF pos[1] < lox THEN lox - pos[1] ELSE IF pos[1] > hix THEN pos[1] - hix ELSE 0
        dy == IF pos[2] < loy THEN loy - pos[2] ELSE IF pos[2] > hiy THEN pos[2] - hiy ELSE 0
    IN  25 * dx * dx + 75 * dy * dy

\* C9: a box-select flips the marker of exactly the units whose squared
\* distance to the closest point of the drag rectangle is strictly below the
\* square of the cell scale (400), leaves every other marker alone and
\* changes no TargetPosition and no Path.
C9_BoxTogglesNear ==
    [][(AntInputStep /\ ReleasedAsDrag(res')) =>
        LET near == {u \in Units :
                       RectDistSq12(translation[u], Unwrap(res'.from), Unwrap(res'.at))
                           < 4800}
        IN  /\ selected' = (selected \ near) \cup (near \ selected)
            /\ target' = target
            /\ waypoints' = waypoints]_vars

\* a box-select has just toggled some units and passed over a unit that lies
\* exactly one cell scale away from the rectangle
C9_BoxMissedBoundaryUnit ==
    /\ res.kind = "box" /\ res.who # {}
    /\ \E u \in Units \ res.who :
          RectDistSq12(translation[u], Unwrap(res.from), Unwrap(res.at)) = 4800

\* C10: a move order that assigns a destination to no unit removes every
\* Selected marker; one that assigns a destination to at least one unit
\* changes no marker.
C10_SelectionAfterOrder ==
    [][MoveOrderStep =>
        IF \E u \in Units : IsSome(res'.assigned[u])
        THEN selected' = selected
        ELSE selected' = {}]_vars

\* a move order has just sent units off and their markers are still set
C10_OrderKeptSelection ==
    /\ res.kind = "move"
    /\ \E u \in Units : IsSome(res.assigned[u])
    /\ \A u \in Units : IsSome(res.assigned[u]) => u \in selected

\* a worker rests on the center of the cell it was last sent to
AtDest(w) ==
    /\ IsSome(dest[w])
    /\ translation[w] = HexToWorldPos(Unwrap(dest[w]))
    /\ waypoints[w] = << >>
    /\ linvel[w] = VZero

\* C7: once the input has stopped, every worker that was given a move order
\* eventually rests on the center of its destination cell with an empty Path
\* and zero velocity, and stays there.
C7_WorkersArrive ==
    /\ \A w \in Workers : (quiet /\ IsSome(dest[w])) ~> AtDest(w)
    /\ [][\A w \in Workers : (quiet /\ AtDest(w)) => AtDest(w)']_vars

\* the input has stopped and two workers rest on the destinations of an order
\* that made them walk
C7_TwoWorkersArrived ==
    /\ quiet
    /\ \E v, w \in Workers :
          /\ v # w /\ AtDest(v) /\ AtDest(w)
          /\ Unwrap(dest[v]) # SpawnHex(v) /\ Unwrap(dest[w]) # SpawnHex(w)

\* the ant_input step resolves a click on a cell in which no unit is seen
ClickOnEmptyCell ==
    /\ AntInputStep
    /\ ReleasedAsClick(res')
    /\ \A u \in Units : WorldPosToHex(translation[u]) # WorldPosToHex(Unwrap(res'.at))

\* C11: a click on a cell without a unit while no unit is selected changes no
\* Selected marker, TargetPosition, Path, position or velocity.
C11_EmptyClickNoOp ==
    [][(ClickOnEmptyCell /\ selected = {}) =>
          /\ selected' = selected
          /\ target' = target
          /\ waypoints' = waypoints
          /\ translation' = translation
          /\ linvel' = linvel]_vars

\* a click on an empty cell has just found nothing selected while a unit,
\* sent off by an earlier order, still has waypoints ahead
C11_NoOpWhileUnitsWalk ==
    /\ res.kind = "noop"
    /\ selected = {}
    /\ \E u \in Units : waypoints[u] # << >>

\* the step of a frame in which move_ants runs
MoveAntsStep == "move_ants" \notin ran /\ "move_ants" \in ran'

\* a position at most arrival_radius (2.0) away from a target
WithinArrivalRadius(pos, tgt) == DistSq12(pos, tgt) <= 48

\* C12: one motion step takes a unit that is within arrival_radius of its
\* TargetPosition and has an empty Path exactly onto the TargetPosition, with
\* zero velocity where it has a velocity, and leaves TargetPosition and Path
\* as they were.
C12_ArrivalSnap ==
    [][MoveAntsStep =>
        \A u \in Units :
            (WithinArrivalRadius(translation[u], target[u]) /\ waypoints[u] = << >>)
            => /\ translation'[u] = target[u]
               /\ u \in Workers => linvel'[u] = VZero
               /\ target'[u] = target[u]
               /\ waypoints'[u] = << >>]_vars

\* move_ants has just pulled a worker that was short of its last target onto
\* it and stopped it there
C12_SnappedAndStopped ==
    /\ hist.on /\ "move_ants" \in ran
    /\ \E w \in hist.snapped \ hist.popped :
          /\ translation[w] = target[w]
          /\ waypoints[w] = << >>
          /\ linvel[w] = VZero

SecondClickOnSameCell ==
    /\ AntInputStep
    /\ hist.on /\ IsSome(hist.click)
    /\ res'.kind = "toggle" /\ ReleasedAsClick(res')
    /\ WorldPosToHex(Unwrap(res'.at)) = Unwrap(hist.click).cell

\* C13 as stated: two clicks in a row on the same cell holding a unit, with
\* no unit changing cell between them, leave every Selected marker as it was
\* before the first.
C13_TwoClicksRestore ==
    [][SecondClickOnSameCell => selected' = Unwrap(hist.click).sel]_vars

\* C13 amended: the same, for a cell in which exactly one unit is seen.
C13_TwoClicksRestoreSingle ==
    [][(/\ SecondClickOnSameCell
        /\ Cardinality({u \in Units :
              WorldPosToHex(translation[u]) = Unwrap(hist.click).cell}) = 1)
       => selected' = Unwrap(hist.click).sel]_vars

\* the second of two clicks on the cell of a single unit has just been
\* resolved and has turned that unit's marker off again, with another unit
\* selected all along
C13_SecondClickDone ==
    /\ hist.on /\ IsSome(hist.click)
    /\ res.kind = "toggle" /\ "move_ants" \notin ran
    /\ Unwrap(hist.click).second
    /\ Unwrap(hist.click).cell = WorldPosToHex(Unwrap(res.at))
    /\ Cardinality({u \in Units : WorldPosToHex(translation[u]) = Unwrap(hist.click).cell}) = 1
    /\ res.who \cap selected = {}
    /\ selected # {}

\* the coordinates between lo and hi at which the corners of the compared
\* rectangles are placed: the two ends and every multiple of 8 between them
CornerCoords(lo, hi) == {x \in lo..hi : x = lo \/ x = hi \/ x % 8 = 0}

\* rectangles <<min, max>> contained in the rectangle <<min, max>> given
SubRects(min, max) ==
    {r \in (CornerCoords(min[1], max[1]) \X CornerCoords(min[2], max[2]))
           \X (CornerCoords(min[1], max[1]) \X CornerCoords(min[2], max[2])) :
        r[1][1] <= r[2][1] /\ r[1][2] <= r[2][2]}

\* rectangles <<min, max>> that contain the rectangle given: each side pushed
\* out by 0, 5 or 24
SuperRects(min, max) ==
    {<<VSub(min, <<dl, db>>), VAdd(max, <<dr, dt>>)>> :
        dl \in {0, 5, 24}, db \in {0, 5}, dr \in {0, 5, 24}, dt \in {0, 5}}

\* the drag rectangle of a resolution
RectMin(r) == VMin(Unwrap(r.from), Unwrap(r.at))
RectMax(r) == VMax(Unwrap(r.from), Unwrap(r.at))

\* C14: with the units where they are, every unit that passes the hit test of
\* a rectangle contained in the drag rectangle is among the units the
\* box-select toggles, and every unit the box-select toggles passes the hit
\* test of every rectangle that contains the drag rectangle.
C14_BoxMonotone ==
    [][(AntInputStep /\ ReleasedAsDrag(res')) =>
        /\ \A r1 \in SubRects(RectMin(res'), RectMax(res')) :
              \A u \in Units : BoxHit(translation[u], r1[1], r1[2]) => u \in res'.who
        /\ \A r2 \in SuperRects(RectMin(res'), RectMax(res')) :
              \A u \in res'.who : BoxHit(translation[u], r2[1], r2[2])]_vars

\* a box-select has just toggled two units of which a rectangle inside the
\* drag rectangle reaches one and not the other
C14_SmallerBoxHitsFewer ==
    /\ res.kind = "box" /\ ran = {"ant_input"}
    /\ \E r1 \in SubRects(RectMin(res), RectMax(res)) :
          \E u, v \in res.who :
             /\ BoxHit(translation[u], r1[1], r1[2])
             /\ ~BoxHit(translation[v], r1[1], r1[2])

\* the cells at hex distance at most r from a cell
HexesWithin(a, r) ==
    {h \in ((a[1] - r)..(a[1] + r)) \X ((a[2] - r)..(a[2] + r)) : HexDistance(h, a) <= r}

\* the candidate cells of a move order on `anchor` are exactly the cells at
\* distance 0 through `radius`, each once, the anchor first and no cell before
\* a nearer one, so that the cells at distance `radius` are the last ones a
\* unit can be given
CandidatesReach(anchor, radius) ==
    LET candidates == SpiralRange(anchor, 0, SpiralEnd)
    IN  /\ {candidates[i] : i \in 1..Len(candidates)} = HexesWithin(anchor, radius)
        /\ Len(candidates) = 1 + 3 * radius * (radius + 1)
        /\ candidates[1] = anchor
        /\ \A i \in 1..(Len(candidates) - 1) :
              HexDistance(candidates[i], anchor) <= HexDistance(candidates[i + 1], anchor)
        /\ HexDistance(candidates[Len(candidates)], anchor) = radius

\* C15 as stated: the candidates of a move order are the cells at distance 0
\* through 10 from the anchor, anchor first and ring by ring, and a cell at
\* distance 10 is assigned when all nearer cells are occupied.
C15_CandidatesToTen ==
    [][MoveOrderStep => CandidatesReach(WorldPosToHex(Unwrap(res'.at)), 10)]_vars

\* C15 amended: the candidates of a move order are the cells at distance 0
\* through 9 from the anchor, anchor first and ring by ring; no cell at
\* distance 10 is a candidate, and every cell handed out is a candidate.
C15_CandidatesToNine ==
    [][MoveOrderStep =>
        /\ CandidatesReach(WorldPosToHex(Unwrap(res'.at)), 9)
        /\ \A u \in Units : IsSome(res'.assigned[u]) =>
              Unwrap(res'.assigned[u]) \in HexesWithin(WorldPosToHex(Unwrap(res'.at)), 9)]_vars

\* a move order has just handed three units the anchor and two cells of its
\* first ring
C15_AnchorAndFirstRing ==
    /\ res.kind = "move"
    /\ Cardinality({u \in Units : IsSome(res.assigned[u])}) = 3
    /\ \E u \in Units : res.assigned[u] = Some(WorldPosToHex(Unwrap(res.at)))
    /\ \A u \in Units : IsSome(res.assigned[u]) =>
          HexDistance(Unwrap(res.assigned[u]), WorldPosToHex(Unwrap(res.at))) <= 1

\* the target cells of the units outside the selection, as a move order finds them
OccupiedBefore == {WorldPosToHex(target[v]) : v \in Units \ selected}

\* the first n cells of the spiral around `anchor` that are not in `occ`; n
\* such cells lie among the first n + |occ| candidates
FirstFree(anchor, occ, n) ==
    LET candidates == SpiralRange(anchor, 0, SpiralEnd)
        prefix == 1..Min2(n + Cardinality(occ), Len(candidates))
        free == {i \in prefix : candidates[i] \notin occ}
    IN  {candidates[i] : i \in {k \in free : Cardinality({j \in free : j < k}) < n}}

\* C16: a move order with n selected units hands out the first n unoccupied
\* candidate cells in center-outward spiral order: the anchor, when it is not
\* occupied, goes to a selected unit, and no cell handed out lies in a ring
\* beyond an unoccupied candidate that was left over.
C16_FirstFreeInSpiralOrder ==
    [][MoveOrderStep =>
        LET anchor == WorldPosToHex(Unwrap(res'.at))
            given == {Unwrap(res'.assigned[u]) : u \in {v \in Units : IsSome(res'.assigned[v])}}
        IN  /\ {u \in Units : IsSome(res'.assigned[u])} = selected
            /\ given = FirstFree(anchor, OccupiedBefore, Cardinality(selected))
            /\ Cardinality(given) = Cardinality(selected)
            /\ anchor \notin OccupiedBefore =>
                  \E u \in selected : res'.assigned[u] = Some(anchor)
            /\ \A a \in given :
                  \A h \in HexesWithin(anchor, SpiralEnd - 1) \ (OccupiedBefore \cup given) :
                      HexDistance(a, anchor) <= HexDistance(h, anchor)]_vars

\* a move order has just found its anchor held by the target of a unit
\* outside the selection and has gone on to the first ring
C16_AnchorTakenRingUsed ==
    /\ res.kind = "move"
    /\ \E v \in Units \ selected : WorldPosToHex(target[v]) = WorldPosToHex(Unwrap(res.at))
    /\ \E u \in selected :
          /\ IsSome(res.assigned[u])
          /\ HexDistance(Unwrap(res.assigned[u]), WorldPosToHex(Unwrap(res.at))) = 1

\* the world centers of the cells of line_to(c, d) after the first
CentersAfterFirst(c, d) ==
    [i \in 1..HexDistance(c, d) |-> HexToWorldPos(LineTo(c, d)[i + 1])]

\* C17: a move order that assigns the cell d to a unit seen in the cell c
\* leaves its TargetPosition followed by its Path equal to the world centers
\* of line_to(c, d) without the first cell, ending on the center of d; with
\* c = d the TargetPosition is the center of d and the Path is empty.
\* Whatever the unit had queued before is gone.
C17_RouteReplacesPath ==
    [][MoveOrderStep =>
        \A u \in Units : IsSome(res'.assigned[u]) =>
            LET c == WorldPosToHex(translation[u])
                d == Unwrap(res'.assigned[u])
            IN  IF c = d
                THEN target'[u] = HexToWorldPos(d) /\ waypoints'[u] = << >>
                ELSE /\ <<target'[u]>> \o waypoints'[u] = CentersAfterFirst(c, d)
                     /\ Len(waypoints'[u]) = HexDistance(c, d) - 1
                     /\ (<<target'[u]>> \o waypoints'[u])[HexDistance(c, d)]
                           = HexToWorldPos(d)]_vars

\* a move order has just rerouted a unit that was under way between two cell
\* centers, and the unit has waypoints queued behind its new target
C17_ReroutedUnderWay ==
    /\ res.kind = "move" /\ ran = {"ant_input"}
    /\ orders = 2
    /\ \E u \in Workers :
          /\ IsSome(res.assigned[u])
          /\ translation[u] # HexToWorldPos(WorldPosToHex(translation[u]))
          /\ waypoints[u] # << >>

\* C18: a move order leaves the TargetPosition and the Path of every unit
\* that it assigns no destination as they were: every unit outside the
\* selection, and every selected unit left without a cell.
C18_UnassignedUntouched ==
    [][MoveOrderStep =>
        /\ \A u \in Units \ selected :
              target'[u] = target[u] /\ waypoints'[u] = waypoints[u]
        /\ \A u \in selected : ~IsSome(res'.assigned[u]) =>
              target'[u] = target[u] /\ waypoints'[u] = waypoints[u]]_vars

\* a move order has just been given while a worker outside the selection is
\* under way to the cell an earlier order sent it to
C18_BystanderUnderWay ==
    /\ res.kind = "move"
    /\ \E v \in Workers \ selected :
          /\ ~IsSome(res.assigned[v])
          /\ IsSome(dest[v])
          /\ translation[v] # target[v]
          /\ WorldPosToHex(target[v]) = Unwrap(dest[v])

\* a gesture is under way: a press has recorded its start and the button or
\* the touch is still held
Dragging == IsSome(start_pos) /\ (mouse_down \/ touch_down)

\* C20: while a gesture is under way and until its release, start_pos stays
\* the position its press recorded; hold frames and further presses change
\* drag_current only.
C20_StartKeptWhileDragging ==
    [][(AntInputStep /\ Dragging /\ ~res'.released) => start_pos' = start_pos]_vars

\* C21: drag_current is set only together with start_pos: the two are both
\* None or both Some, also after a hold whose press was never recorded.
C21_DragPairedWithStart ==
    IsSome(drag_current) <=> IsSome(start_pos)

\* C22: no two units have the same final destination cell, the cell of the
\* last waypoint of the Path or of the TargetPosition when the Path is empty.
C22_FinalCellsDistinct ==
    \A u, v \in Units :
        u # v => FinalCell(target[u], waypoints[u]) # FinalCell(target[v], waypoints[v])

\* C23: a move order never rewrites the Queen: with the Queen among the
\* selected units her TargetPosition stays the center of cell (0,0), her Path
\* stays empty and no candidate cell is spent on her.
C23_OrderSparesQueen ==
    [][(MoveOrderStep /\ Queen \in selected) =>
          /\ target'[Queen] = QueenHome
          /\ waypoints'[Queen] = << >>
          /\ ~IsSome(res'.assigned[Queen])]_vars

====
